---- MODULE Spec2Model ----
(***************************************************************************)
(* Model of the BlitzWare Node SDK Express middleware (unnamed/part_000):  *)
(* blitzwareAuth, requireBlitzwareSession, blitzwareCallback,              *)
(* blitzwareLogin and blitzwareLogout, running against one session bag.    *)
(* Every handler is cut at its await points: the code between two awaits   *)
(* is one atomic action, the protocol client's answer is an input of the   *)
(* action that resumes the handler.                                        *)
(***************************************************************************)
EXTENDS Integers, Sequences, FiniteSets, TLC

\* ---------------------------------------------------------------- bounds
\* number of request slots (requests whose record is held at the same time)
MaxInFlight == 2
\* number of login attempts whose state the history keeps
MaxAttempts == 2

Slots == 1..MaxInFlight

\* ---------------------------------------------------------------- values
\* null / undefined: every falsy value a session field or a response field holds
NULL == "null"

Tokens == {"t1", "t2"}
Users == {"u1", "u2"}
StateVals == {"s1", "s2"}
Verifiers == {"v1", "v2"}
Codes == {"c1"}

\* failure codes of the Error Taxonomy, per protocol-client operation
ValidateErrors == {"token_inactive", "userinfo_failed", "network_error"}
RefreshErrors == {"token_refresh_failed", "network_error"}
UserInfoErrors == {"userinfo_failed", "network_error"}
ExchangeErrors == {"token_exchange_failed", "network_error"}
LogoutErrors == {"network_error"}

\* TokenResponse: access_token is a non-empty string, refresh_token is optional
TokenResponses == [access_token : Tokens, refresh_token : Tokens \cup {NULL}]
NoTokenResponse == [access_token |-> NULL, refresh_token |-> NULL]

\* callback query parameters (req.query)
RemoteErrors == {"access_denied"}
Queries == [code : Codes \cup {NULL}, state : StateVals \cup {NULL},
            error : RemoteErrors \cup {NULL}]
NoQuery == [code |-> NULL, state |-> NULL, error |-> NULL]

\* what the introspection endpoint answers: the token is active, the token is
\* inactive, or the round trip failed (timeout, connection refused)
IntrospectOutcomes == {"active", "inactive", "network_error"}
\* what the user-info endpoint answers: a profile or a failure
UserInfoOutcomes == Users \cup UserInfoErrors

\* no introspection was made
NoIntrospection == [endpoint |-> NULL, raised |-> NULL, active |-> FALSE]

\* ClientConfig as handed to the constructor: each required field is absent,
\* the empty string, or set
ClientConfigs ==
  [clientId : {NULL, "", "id"}, clientSecret : {NULL, "", "secret"},
   redirectUri : {NULL, "", "uri"}]

VARIABLES
  session,    \* the session bag shared by the requests of one browser session
  cfg,        \* the middleware configuration (fixed at construction)
  req,        \* req[r]: the request handled in slot r and its handler's position
  attempts,   \* history: states put in the authorization URLs of the latest login
              \* attempts since a callback last cleared the stored state
  knownBad    \* history: blitzwareAuth cleared the session and no callback started since

vars == <<session, cfg, req, attempts, knownBad>>

\* JavaScript truthiness of a session or response field
Truthy(x) == x # NULL

\* a required configuration field is missing or empty
Missing(x) == x \in {NULL, ""}

\* ------------------------------------------ protocol client: construction
\* mutant: redirectUri is looked at only when the authorization URL is built
NewBlitzWareAuth_DefersRedirectUri(config) ==
  LET code == IF Missing(config.clientId) THEN "missing_client_id"
              ELSE IF Missing(config.clientSecret) THEN "missing_client_secret"
              ELSE NULL
  IN [created |-> code = NULL, error |-> code, config |-> config]

\* new BlitzWareAuth(config): the client, or the construction-time error;
\* created is false when the constructor threw and no object exists
NewBlitzWareAuth(config) ==
  LET code == IF Missing(config.clientId) THEN "missing_client_id"
              ELSE IF Missing(config.clientSecret) THEN "missing_client_secret"
              ELSE IF Missing(config.redirectUri) THEN "missing_redirect_uri"
              ELSE NULL
  IN [created |-> code = NULL, error |-> code, config |-> config]

\* the middleware configurations: the options and the client handed over
MiddlewareConfigs(autoRefreshValues) ==
  {[autoRefresh |-> a, attachUser |-> u, frontChannel |-> f,
    blitzware |-> NewBlitzWareAuth(cc)] :
     a \in autoRefreshValues, u \in BOOLEAN, f \in BOOLEAN, cc \in ClientConfigs}

\* a session created by the session middleware, before any handler wrote to it
EmptySession ==
  [accessToken |-> NULL, refreshToken |-> NULL, user |-> NULL,
   oauthState |-> NULL, codeVerifier |-> NULL]

\* the request object and the handler's locals
IdleReq ==
  [handler |-> "none", pc |-> "idle", hasSession |-> TRUE,
   out |-> <<>>, calls |-> <<>>, results |-> <<>>,
   blitzwareUser |-> NULL, blitzwareAccessToken |-> NULL,
   accessToken |-> NULL, tokenResponse |-> NoTokenResponse, user |-> NULL,
   query |-> NoQuery, errorCode |-> NULL, authState |-> NULL,
   authVerifier |-> NULL,
   introspection |-> NoIntrospection, inner |-> <<>>]

NewReq(h, hs) == [IdleReq EXCEPT !.handler = h, !.hasSession = hs, !.pc = "run"]

Init ==
  /\ session = EmptySession
  /\ cfg \in MiddlewareConfigs(BOOLEAN)
  /\ req = [r \in Slots |-> IdleReq]
  /\ attempts = <<>>
  /\ knownBad = FALSE

\* no handler is suspended at an await
Quiet == \A r \in Slots : req[r].pc = "idle"

\* a protocol-client call: what was called and with which argument
Call(op, arg) == [op |-> op, arg |-> arg]

\* the response is sent (or next is called) and the handler returns
Finish(q, outcome) == [q EXCEPT !.out = Append(@, outcome), !.pc = "done"]

\* issue a protocol-client call and suspend at the await
Await(q, op, arg, at) == [q EXCEPT !.calls = Append(@, Call(op, arg)), !.pc = at]

\* the awaited call returned with this result ("ok" or an error code)
Resume(q, result) == [q EXCEPT !.results = Append(@, result)]

\* the awaited validateTokenAndGetUser returned v (result and the round trips
\* it made)
Validated(q, v) ==
  [Resume(q, v.result) EXCEPT !.introspection = v.introspection,
                              !.inner = v.inner]

\* CLEAR_SESSION: set the token and user fields to null
ClearSession(s) ==
  [s EXCEPT !.accessToken = NULL, !.refreshToken = NULL, !.user = NULL]

\* mutant: the attachUser option is ignored
AttachUser_Always(q, user, token) ==
  [q EXCEPT !.blitzwareUser = user, !.blitzwareAccessToken = token]

\* if (attachUser) { req.blitzwareUser = user; req.blitzwareAccessToken = token }
AttachUser(q, user, token) ==
  IF cfg.attachUser
    THEN [q EXCEPT !.blitzwareUser = user, !.blitzwareAccessToken = token]
    ELSE q

\* ----------------------------------- protocol client: token validation
\* mutant: an inactive token makes introspectToken raise
IntrospectToken_RaisesOnInactive(endpoint) ==
  [endpoint |-> endpoint,
   raised |-> IF endpoint = "network_error" THEN "network_error"
              ELSE IF endpoint = "inactive" THEN "token_inactive" ELSE NULL,
   active |-> endpoint = "active"]

\* introspectToken: the IntrospectionResult, or the error raised; active:false
\* is a result, only a transport failure raises
IntrospectToken(endpoint) ==
  [endpoint |-> endpoint,
   raised |-> IF endpoint = "network_error" THEN "network_error" ELSE NULL,
   active |-> endpoint = "active"]

\* the result of getUserInfo: a profile is returned, a failure is raised
UserInfoResult(ui) == IF ui \in Users THEN "ok" ELSE ui

\* a round trip of the protocol client and what the endpoint answered
RoundTrip(op, answer) == [op |-> op, answer |-> answer]

\* validateTokenAndGetUser: introspect; inactive -> token_inactive; otherwise
\* delegate to getUserInfo
ValidateTokenAndGetUser(endpoint, ui) ==
  LET i == IntrospectToken(endpoint) IN
  IF Truthy(i.raised)
    THEN [result |-> i.raised, user |-> NULL, introspection |-> i,
          inner |-> <<RoundTrip("introspectToken", endpoint)>>]
  ELSE IF ~i.active
    THEN [result |-> "token_inactive", user |-> NULL, introspection |-> i,
          inner |-> <<RoundTrip("introspectToken", endpoint)>>]
    ELSE [result |-> UserInfoResult(ui),
          user |-> IF ui \in Users THEN ui ELSE NULL,
          introspection |-> i,
          inner |-> <<RoundTrip("introspectToken", endpoint),
                      RoundTrip("getUserInfo", ui)>>]

\* ------------------------------------------------------------ blitzwareAuth
\* mutant: the missing-token check is skipped, the empty token is validated
AuthStart_NoTokenCheck(r) ==
  /\ req[r].pc = "idle"
  /\ \E hs \in BOOLEAN :
       LET q == NewReq("auth", hs) IN
       IF ~hs
         THEN req' = [req EXCEPT ![r] = Finish(q, "config_error_500")]
         ELSE req' = [req EXCEPT ![r] =
                Await([q EXCEPT !.accessToken = session.accessToken],
                      "validateTokenAndGetUser", session.accessToken,
                      "validating")]
  /\ UNCHANGED <<session, cfg, attempts, knownBad>>

\* entry of the handler up to the first await
AuthStart(r) ==
  /\ req[r].pc = "idle"
  /\ \E hs \in BOOLEAN :
       LET q == NewReq("auth", hs) IN
       IF ~hs
         THEN /\ req' = [req EXCEPT ![r] = Finish(q, "config_error_500")]
         ELSE IF ~Truthy(session.accessToken)
           THEN /\ req' = [req EXCEPT ![r] = Finish(q, "redirect_login")]
           ELSE /\ req' = [req EXCEPT ![r] =
                     Await([q EXCEPT !.accessToken = session.accessToken],
                           "validateTokenAndGetUser", session.accessToken,
                           "validating")]
  /\ UNCHANGED <<session, cfg, attempts, knownBad>>

\* mutant: the fresh profile is attached but not written into the session
AuthValidateOk_NoSessionWrite(r) ==
  /\ req[r].handler = "auth" /\ req[r].pc = "validating"
  /\ \E endpoint \in IntrospectOutcomes, ui \in UserInfoOutcomes :
       LET v == ValidateTokenAndGetUser(endpoint, ui) IN
       /\ v.result = "ok"
       /\ req' = [req EXCEPT ![r] =
            Finish(AttachUser([Validated(req[r], v) EXCEPT !.user = v.user],
                              v.user, req[r].accessToken), "next")]
  /\ UNCHANGED <<session, cfg, attempts, knownBad>>

\* validateTokenAndGetUser resolved with a user
AuthValidateOk(r) ==
  /\ req[r].handler = "auth" /\ req[r].pc = "validating"
  /\ \E endpoint \in IntrospectOutcomes, ui \in UserInfoOutcomes :
       LET v == ValidateTokenAndGetUser(endpoint, ui) IN
       /\ v.result = "ok"
       /\ req' = [req EXCEPT ![r] =
            Finish(AttachUser([Validated(req[r], v) EXCEPT !.user = v.user],
                              v.user, req[r].accessToken), "next")]
       /\ session' = [session EXCEPT !.user = v.user]
  /\ UNCHANGED <<cfg, attempts, knownBad>>

\* mutant: the autoRefresh option is ignored
AuthValidateFail_IgnoresAutoRefresh(r) ==
  /\ req[r].handler = "auth" /\ req[r].pc = "validating"
  /\ \E endpoint \in IntrospectOutcomes, ui \in UserInfoOutcomes :
       LET v == ValidateTokenAndGetUser(endpoint, ui)
           e == v.result
           q == Validated(req[r], v)
       IN
       /\ e # "ok"
       /\ IF Truthy(session.refreshToken)
            THEN /\ req' = [req EXCEPT ![r] =
                      Await(q, "refreshToken", session.refreshToken, "refreshing")]
                 /\ UNCHANGED <<session, knownBad>>
            ELSE /\ session' = ClearSession(session)
                 /\ req' = [req EXCEPT ![r] = Finish(q, "redirect_login")]
                 /\ knownBad' = TRUE
  /\ UNCHANGED <<cfg, attempts>>

\* mutant: a transport failure of the validation is not refresh-eligible
AuthValidateFail_NetworkErrorNoRefresh(r) ==
  /\ req[r].handler = "auth" /\ req[r].pc = "validating"
  /\ \E endpoint \in IntrospectOutcomes, ui \in UserInfoOutcomes :
       LET v == ValidateTokenAndGetUser(endpoint, ui)
           e == v.result
           q == Validated(req[r], v)
       IN
       /\ e # "ok"
       /\ IF cfg.autoRefresh /\ Truthy(session.refreshToken) /\ e # "network_error"
            THEN /\ req' = [req EXCEPT ![r] =
                      Await(q, "refreshToken", session.refreshToken, "refreshing")]
                 /\ UNCHANGED <<session, knownBad>>
            ELSE /\ session' = ClearSession(session)
                 /\ req' = [req EXCEPT ![r] = Finish(q, "redirect_login")]
                 /\ knownBad' = TRUE
  /\ UNCHANGED <<cfg, attempts>>

\* mutant: an inactive token is not refreshed
AuthValidateFail_InactiveNoRefresh(r) ==
  /\ req[r].handler = "auth" /\ req[r].pc = "validating"
  /\ \E endpoint \in IntrospectOutcomes, ui \in UserInfoOutcomes :
       LET v == ValidateTokenAndGetUser(endpoint, ui)
           e == v.result
           q == Validated(req[r], v)
       IN
       /\ e # "ok"
       /\ IF cfg.autoRefresh /\ Truthy(session.refreshToken) /\ e # "token_inactive"
            THEN /\ req' = [req EXCEPT ![r] =
                      Await(q, "refreshToken", session.refreshToken, "refreshing")]
                 /\ UNCHANGED <<session, knownBad>>
            ELSE /\ session' = ClearSession(session)
                 /\ req' = [req EXCEPT ![r] = Finish(q, "redirect_login")]
                 /\ knownBad' = TRUE
  /\ UNCHANGED <<cfg, attempts>>

\* validateTokenAndGetUser rejected: refresh when enabled and possible, else clear
AuthValidateFail(r) ==
  /\ req[r].handler = "auth" /\ req[r].pc = "validating"
  /\ \E endpoint \in IntrospectOutcomes, ui \in UserInfoOutcomes :
       LET v == ValidateTokenAndGetUser(endpoint, ui)
           e == v.result
           q == Validated(req[r], v)
       IN
       /\ e # "ok"
       /\ IF cfg.autoRefresh /\ Truthy(session.refreshToken)
            THEN /\ req' = [req EXCEPT ![r] =
                      Await(q, "refreshToken", session.refreshToken, "refreshing")]
                 /\ UNCHANGED <<session, knownBad>>
            ELSE /\ session' = ClearSession(session)
                 /\ req' = [req EXCEPT ![r] = Finish(q, "redirect_login")]
                 /\ knownBad' = TRUE
  /\ UNCHANGED <<cfg, attempts>>

\* mutant: the refresh token is overwritten even when the response has none
AuthRefreshOk_AlwaysOverwrites(r) ==
  /\ req[r].handler = "auth" /\ req[r].pc = "refreshing"
  /\ \E tr \in TokenResponses :
       /\ session' = [session EXCEPT
            !.accessToken = tr.access_token,
            !.refreshToken = tr.refresh_token]
       /\ req' = [req EXCEPT ![r] =
            Await([Resume(req[r], "ok") EXCEPT !.tokenResponse = tr],
                  "getUserInfo", tr.access_token, "userinfo")]
  /\ UNCHANGED <<cfg, attempts, knownBad>>

\* refreshToken resolved: store the tokens, then fetch the user
AuthRefreshOk(r) ==
  /\ req[r].handler = "auth" /\ req[r].pc = "refreshing"
  /\ \E tr \in TokenResponses :
       /\ session' = [session EXCEPT
            !.accessToken = tr.access_token,
            !.refreshToken = IF Truthy(tr.refresh_token) THEN tr.refresh_token ELSE @]
       /\ req' = [req EXCEPT ![r] =
            Await([Resume(req[r], "ok") EXCEPT !.tokenResponse = tr],
                  "getUserInfo", tr.access_token, "userinfo")]
  /\ UNCHANGED <<cfg, attempts, knownBad>>

\* mutant: the catch block forgets to clear the access token
AuthRefreshCatch_KeepsAccessToken(r, e) ==
  /\ session' = [session EXCEPT !.refreshToken = NULL, !.user = NULL]
  /\ req' = [req EXCEPT ![r] = Finish(Resume(req[r], e), "redirect_login")]
  /\ knownBad' = TRUE
  /\ UNCHANGED <<cfg, attempts>>

\* catch (refreshError): clear the session and redirect to login
AuthRefreshCatch(r, e) ==
  /\ session' = ClearSession(session)
  /\ req' = [req EXCEPT ![r] = Finish(Resume(req[r], e), "redirect_login")]
  /\ knownBad' = TRUE
  /\ UNCHANGED <<cfg, attempts>>

\* mutant: a rejected refresh is retried once
AuthRefreshFail_Retries(r) ==
  /\ req[r].handler = "auth" /\ req[r].pc = "refreshing"
  /\ \E e \in RefreshErrors :
       IF Len(req[r].calls) < 3
            THEN /\ req' = [req EXCEPT ![r] =
                      Await(Resume(req[r], e), "refreshToken",
                         session.refreshToken, "refreshing")]
                 /\ UNCHANGED <<session, cfg, attempts, knownBad>>
            ELSE AuthRefreshCatch(r, e)

\* refreshToken rejected
AuthRefreshFail(r) ==
  /\ req[r].handler = "auth" /\ req[r].pc = "refreshing"
  /\ \E e \in RefreshErrors : AuthRefreshCatch(r, e)

\* mutant: after next() the handler falls through to the login redirect
AuthUserInfoOk_NextThenRedirect(r) ==
  /\ req[r].handler = "auth" /\ req[r].pc = "userinfo"
  /\ \E u \in Users :
       /\ req' = [req EXCEPT ![r] =
            Finish([AttachUser([Resume(req[r], "ok") EXCEPT !.user = u],
                               u, req[r].tokenResponse.access_token)
                      EXCEPT !.out = Append(@, "next")], "redirect_login")]
       /\ session' = [session EXCEPT !.user = u]
  /\ UNCHANGED <<cfg, attempts, knownBad>>

\* getUserInfo (with the new access token) resolved
AuthUserInfoOk(r) ==
  /\ req[r].handler = "auth" /\ req[r].pc = "userinfo"
  /\ \E u \in Users :
       /\ req' = [req EXCEPT ![r] =
            Finish(AttachUser([Resume(req[r], "ok") EXCEPT !.user = u],
                              u, req[r].tokenResponse.access_token), "next")]
       /\ session' = [session EXCEPT !.user = u]
  /\ UNCHANGED <<cfg, attempts, knownBad>>

\* mutant: a failed user-info fetch reaches the outer catch (server error, no clearing)
AuthUserInfoFail_OuterCatch(r) ==
  /\ req[r].handler = "auth" /\ req[r].pc = "userinfo"
  /\ \E e \in UserInfoErrors :
       req' = [req EXCEPT ![r] = Finish(Resume(req[r], e), "auth_error_500")]
  /\ UNCHANGED <<session, cfg, attempts, knownBad>>

\* mutant: a failed user-info fetch is swallowed and the request continues
AuthUserInfoFail_CallsNext(r) ==
  /\ req[r].handler = "auth" /\ req[r].pc = "userinfo"
  /\ \E e \in UserInfoErrors :
       req' = [req EXCEPT ![r] = Finish(Resume(req[r], e), "next")]
  /\ UNCHANGED <<session, cfg, attempts, knownBad>>

\* getUserInfo rejected inside the refresh try block: the same catch (refreshError)
AuthUserInfoFail(r) ==
  /\ req[r].handler = "auth" /\ req[r].pc = "userinfo"
  /\ \E e \in UserInfoErrors : AuthRefreshCatch(r, e)

\* -------------------------------------------------- requireBlitzwareSession
\* mutant: the handler tests the access token instead of the user record
RequireSession_TestsAccessToken(r) ==
  /\ req[r].pc = "idle"
  /\ \E hs \in BOOLEAN :
       LET q == NewReq("requireSession", hs) IN
       IF ~hs
            THEN req' = [req EXCEPT ![r] = Finish(q, "config_error_500")]
            ELSE IF ~Truthy(session.accessToken)
           THEN req' = [req EXCEPT ![r] = Finish(q, "redirect_login")]
           ELSE req' = [req EXCEPT ![r] =
                  Finish(IF cfg.attachUser
                           THEN [q EXCEPT !.blitzwareUser = session.user]
                           ELSE q, "next")]
  /\ UNCHANGED <<session, cfg, attempts, knownBad>>

\* synchronous handler: one action
RequireSession(r) ==
  /\ req[r].pc = "idle"
  /\ \E hs \in BOOLEAN :
       LET q == NewReq("requireSession", hs) IN
       IF ~hs
            THEN req' = [req EXCEPT ![r] = Finish(q, "config_error_500")]
            ELSE IF ~Truthy(session.user)
           THEN req' = [req EXCEPT ![r] = Finish(q, "redirect_login")]
           ELSE req' = [req EXCEPT ![r] =
                  Finish(IF cfg.attachUser
                           THEN [q EXCEPT !.blitzwareUser = session.user]
                           ELSE q, "next")]
  /\ UNCHANGED <<session, cfg, attempts, knownBad>>

\* ------------------------------------------------------- protocol client
\* handleCallback up to the token exchange: "ok" when the exchange is issued,
\* else the code of the error it raises
\* mutant: the state is compared before the code is looked at
HandleCallbackCheck_StateFirst(query, expectedState) ==
  IF \/ ~Truthy(expectedState)
     \/ ~Truthy(query.state)
     \/ query.state # expectedState THEN "invalid_state"
  ELSE IF ~Truthy(query.code) THEN "missing_authorization_code"
  ELSE "ok"

\* (a mismatch includes either side being absent)
HandleCallbackCheck(query, expectedState) ==
  IF ~Truthy(query.code) THEN "missing_authorization_code"
  ELSE IF \/ ~Truthy(expectedState)
          \/ ~Truthy(query.state)
          \/ query.state # expectedState THEN "invalid_state"
  ELSE "ok"

\* -------------------------------------------------------- blitzwareCallback
\* mutant: the error is not recognised as a BlitzWareAuthError (error=auth_failed)
CallbackCatch_GenericError(q, e) ==
  Finish([Resume(q, e) EXCEPT !.errorCode = "auth_failed"], "redirect_error")

\* catch (error): redirect to errorRedirect with error_code=<code>
CallbackCatch(q, e) ==
  Finish([Resume(q, e) EXCEPT !.errorCode = e], "redirect_error")

\* mutant: handleCallback is not awaited; its rejection is lost and the
\* handler goes on with an undefined token response
CallbackStart_NoAwait(r) ==
  /\ req[r].pc = "idle"
  /\ \E hs \in BOOLEAN, query \in Queries :
       LET q == [NewReq("callback", hs) EXCEPT !.query = query] IN
       IF ~hs
            THEN /\ req' = [req EXCEPT ![r] = Finish(q, "config_error_500")]
                 /\ UNCHANGED <<session, knownBad>>
            ELSE /\ req' = [req EXCEPT ![r] =
                      Await(Resume(Await(q, "handleCallback",
                                      <<query, session.oauthState,
                                        session.codeVerifier>>, "exchanging"),
                                "ok"),
                         "getUserInfo", NULL, "userinfo")]
                 /\ session' = [session EXCEPT !.accessToken = NULL]
                 /\ knownBad' = FALSE
  /\ UNCHANGED <<cfg, attempts>>

\* mutant: the state of the query is passed as the expected state
CallbackStart_TrustsQueryState(r) ==
  /\ req[r].pc = "idle"
  /\ \E hs \in BOOLEAN, query \in Queries :
       LET q == [NewReq("callback", hs) EXCEPT !.query = query] IN
       IF ~hs
            THEN /\ req' = [req EXCEPT ![r] = Finish(q, "config_error_500")]
                 /\ UNCHANGED knownBad
            ELSE LET chk == HandleCallbackCheck(query, query.state)
                  c == Await(q, "handleCallback",
                             <<query, query.state, session.codeVerifier>>,
                             "exchanging")
              IN /\ req' = [req EXCEPT ![r] =
                       IF chk = "ok" THEN c ELSE CallbackCatch(c, chk)]
                 /\ knownBad' = FALSE
  /\ UNCHANGED <<session, cfg, attempts>>

\* entry of the handler: read state and verifier, call handleCallback
CallbackStart(r) ==
  /\ req[r].pc = "idle"
  /\ \E hs \in BOOLEAN, query \in Queries :
       LET q == [NewReq("callback", hs) EXCEPT !.query = query] IN
       IF ~hs
            THEN /\ req' = [req EXCEPT ![r] = Finish(q, "config_error_500")]
                 /\ UNCHANGED knownBad
            ELSE LET chk == HandleCallbackCheck(query, session.oauthState)
                  c == Await(q, "handleCallback",
                             <<query, session.oauthState, session.codeVerifier>>,
                             "exchanging")
              IN /\ req' = [req EXCEPT ![r] =
                       IF chk = "ok" THEN c ELSE CallbackCatch(c, chk)]
                 /\ knownBad' = FALSE
  /\ UNCHANGED <<session, cfg, attempts>>

\* handleCallback resolved: store the tokens, then fetch the user
CallbackExchangeOk(r) ==
  /\ req[r].handler = "callback" /\ req[r].pc = "exchanging"
  /\ \E tr \in TokenResponses :
       /\ session' = [session EXCEPT
            !.accessToken = tr.access_token,
            !.refreshToken = IF Truthy(tr.refresh_token) THEN tr.refresh_token ELSE @]
       /\ req' = [req EXCEPT ![r] =
            Await([Resume(req[r], "ok") EXCEPT !.tokenResponse = tr],
                  "getUserInfo", tr.access_token, "userinfo")]
  /\ UNCHANGED <<cfg, attempts, knownBad>>

\* handleCallback rejected by the token endpoint
CallbackExchangeFail(r) ==
  /\ req[r].handler = "callback" /\ req[r].pc = "exchanging"
  /\ \E e \in ExchangeErrors :
       req' = [req EXCEPT ![r] = CallbackCatch(req[r], e)]
  /\ UNCHANGED <<session, cfg, attempts, knownBad>>

\* mutant: the PKCE verifier is left in the session
CallbackUserInfoOk_KeepsVerifier(r) ==
  /\ req[r].handler = "callback" /\ req[r].pc = "userinfo"
  /\ \E u \in Users :
       /\ session' = [session EXCEPT !.user = u, !.oauthState = NULL]
       /\ req' = [req EXCEPT ![r] =
            Finish([Resume(req[r], "ok") EXCEPT !.user = u], "redirect_success")]
  /\ attempts' = <<>>
  /\ UNCHANGED <<cfg, knownBad>>

\* getUserInfo resolved: store the user, clear state and verifier, redirect
CallbackUserInfoOk(r) ==
  /\ req[r].handler = "callback" /\ req[r].pc = "userinfo"
  /\ \E u \in Users :
       /\ session' = [session EXCEPT
            !.user = u, !.oauthState = NULL, !.codeVerifier = NULL]
       /\ req' = [req EXCEPT ![r] =
            Finish([Resume(req[r], "ok") EXCEPT !.user = u], "redirect_success")]
  /\ attempts' = <<>>
  /\ UNCHANGED <<cfg, knownBad>>

\* mutant: the rejection of getUserInfo is not caught; the handler ends
\* without a response
CallbackUserInfoFail_Escapes(r) ==
  /\ req[r].handler = "callback" /\ req[r].pc = "userinfo"
  /\ \E e \in UserInfoErrors :
       req' = [req EXCEPT ![r] = [Resume(req[r], e) EXCEPT !.pc = "done"]]
  /\ UNCHANGED <<session, cfg, attempts, knownBad>>

\* getUserInfo rejected
CallbackUserInfoFail(r) ==
  /\ req[r].handler = "callback" /\ req[r].pc = "userinfo"
  /\ \E e \in UserInfoErrors :
       req' = [req EXCEPT ![r] = CallbackCatch(req[r], e)]
  /\ UNCHANGED <<session, cfg, attempts, knownBad>>

\* ----------------------------------------------------------- blitzwareLogin
\* history of the login attempts: keep the latest MaxAttempts states
Remember(hist, state) ==
  IF Len(hist) < MaxAttempts THEN Append(hist, state)
                             ELSE Append(Tail(hist), state)

\* mutant: the session check is missing; writing to the absent session throws
\* and the handler's catch answers "Login failed"
Login_NoSessionCheck(r) ==
  /\ req[r].pc = "idle"
  /\ \E hs \in BOOLEAN, state \in StateVals, codeVerifier \in Verifiers :
       LET q == NewReq("login", hs) IN
       IF ~hs
            THEN /\ req' = [req EXCEPT ![r] = Finish(q, "login_failed_500")]
                 /\ UNCHANGED <<session, attempts>>
            ELSE /\ session' = [session EXCEPT
                   !.oauthState = state, !.codeVerifier = codeVerifier]
                 /\ req' = [req EXCEPT ![r] =
                   Finish([q EXCEPT !.authState = state, !.authVerifier = codeVerifier],
                          "redirect_authorize")]
                 /\ attempts' = Remember(attempts, state)
  /\ UNCHANGED <<cfg, knownBad>>

\* mutant: a state already stored in the session is not overwritten
Login_KeepsFirstState(r) ==
  /\ req[r].pc = "idle"
  /\ \E hs \in BOOLEAN, state \in StateVals, codeVerifier \in Verifiers :
       LET q == NewReq("login", hs) IN
       IF ~hs
            THEN /\ req' = [req EXCEPT ![r] = Finish(q, "config_error_500")]
                 /\ UNCHANGED <<session, attempts>>
            ELSE /\ session' = [session EXCEPT
                   !.oauthState = IF Truthy(@) THEN @ ELSE state,
                   !.codeVerifier = codeVerifier]
                 /\ req' = [req EXCEPT ![r] =
                   Finish([q EXCEPT !.authState = state, !.authVerifier = codeVerifier],
                          "redirect_authorize")]
                 /\ attempts' = Remember(attempts, state)
  /\ UNCHANGED <<cfg, knownBad>>

\* mutant: the state stored is generated anew, not the one put in the URL
Login_StoresOtherState(r) ==
  /\ req[r].pc = "idle"
  /\ \E hs \in BOOLEAN, state \in StateVals, codeVerifier \in Verifiers :
       LET q == NewReq("login", hs) IN
       IF ~hs
            THEN /\ req' = [req EXCEPT ![r] = Finish(q, "config_error_500")]
                 /\ UNCHANGED <<session, attempts>>
            ELSE /\ \E other \in StateVals \ {state} :
                   session' = [session EXCEPT
                     !.oauthState = other, !.codeVerifier = codeVerifier]
                 /\ req' = [req EXCEPT ![r] =
                   Finish([q EXCEPT !.authState = state, !.authVerifier = codeVerifier],
                          "redirect_authorize")]
                 /\ attempts' = Remember(attempts, state)
  /\ UNCHANGED <<cfg, knownBad>>

\* mutant: a verifier already stored in the session is kept
Login_KeepsStoredVerifier(r) ==
  /\ req[r].pc = "idle"
  /\ \E hs \in BOOLEAN, state \in StateVals, codeVerifier \in Verifiers :
       LET q == NewReq("login", hs) IN
       IF ~hs
         THEN /\ req' = [req EXCEPT ![r] = Finish(q, "config_error_500")]
              /\ UNCHANGED <<session, attempts>>
         ELSE /\ session' = [session EXCEPT
                   !.oauthState = state,
                   !.codeVerifier = IF Truthy(@) THEN @ ELSE codeVerifier]
              /\ req' = [req EXCEPT ![r] =
                   Finish([q EXCEPT !.authState = state, !.authVerifier = codeVerifier],
                          "redirect_authorize")]
              /\ attempts' = Remember(attempts, state)
  /\ UNCHANGED <<cfg, knownBad>>

\* mutant: starting a login drops the tokens and the user of the session
Login_ResetsSession(r) ==
  /\ req[r].pc = "idle"
  /\ \E hs \in BOOLEAN, state \in StateVals, codeVerifier \in Verifiers :
       LET q == NewReq("login", hs) IN
       IF ~hs
         THEN /\ req' = [req EXCEPT ![r] = Finish(q, "config_error_500")]
              /\ UNCHANGED <<session, attempts>>
         ELSE /\ session' = [ClearSession(session) EXCEPT
                   !.oauthState = state, !.codeVerifier = codeVerifier]
              /\ req' = [req EXCEPT ![r] =
                   Finish([q EXCEPT !.authState = state, !.authVerifier = codeVerifier],
                          "redirect_authorize")]
              /\ attempts' = Remember(attempts, state)
  /\ UNCHANGED <<cfg, knownBad>>

\* synchronous in effect: generateState and getAuthorizationUrl do not suspend
Login(r) ==
  /\ req[r].pc = "idle"
  /\ \E hs \in BOOLEAN, state \in StateVals, codeVerifier \in Verifiers :
       LET q == NewReq("login", hs) IN
       IF ~hs
            THEN /\ req' = [req EXCEPT ![r] = Finish(q, "config_error_500")]
                 /\ UNCHANGED <<session, attempts>>
            ELSE /\ session' = [session EXCEPT
                   !.oauthState = state, !.codeVerifier = codeVerifier]
                 /\ req' = [req EXCEPT ![r] =
                   Finish([q EXCEPT !.authState = state, !.authVerifier = codeVerifier],
                          "redirect_authorize")]
                 /\ attempts' = Remember(attempts, state)
  /\ UNCHANGED <<cfg, knownBad>>

\* ---------------------------------------------------------- blitzwareLogout
\* mutant: the session is not cleared before the remote logout
LogoutStart_NoClear(r) ==
  /\ req[r].pc = "idle"
  /\ \E hs \in BOOLEAN :
       LET q == NewReq("logout", hs) IN
       IF ~hs
            THEN req' = [req EXCEPT ![r] = Finish(q, "redirect_logout")]
            ELSE req' = [req EXCEPT ![r] =
                IF cfg.frontChannel
                  THEN Finish(q, "logout_page")
                  ELSE Await(q, "logout", NULL, "loggingOut")]
  /\ UNCHANGED <<session, cfg, attempts, knownBad>>

\* mutant: the server-to-server logout is called in front-channel mode too
LogoutStart_AlwaysBackChannel(r) ==
  /\ req[r].pc = "idle"
  /\ \E hs \in BOOLEAN :
       LET q == NewReq("logout", hs) IN
       IF ~hs
         THEN /\ req' = [req EXCEPT ![r] = Finish(q, "redirect_logout")]
              /\ UNCHANGED session
         ELSE /\ session' = ClearSession(session)
              /\ req' = [req EXCEPT ![r] = Await(q, "logout", NULL, "loggingOut")]
  /\ UNCHANGED <<cfg, attempts, knownBad>>

\* mutant: a logout without a session object is answered like the other
\* handlers, with the configuration error
LogoutStart_NoSessionConfigError(r) ==
  /\ req[r].pc = "idle"
  /\ \E hs \in BOOLEAN :
       LET q == NewReq("logout", hs) IN
       IF ~hs
         THEN /\ req' = [req EXCEPT ![r] = Finish(q, "config_error_500")]
              /\ UNCHANGED session
         ELSE /\ session' = ClearSession(session)
              /\ req' = [req EXCEPT ![r] =
                   IF cfg.frontChannel
                     THEN Finish(q, "logout_page")
                     ELSE Await(q, "logout", NULL, "loggingOut")]
  /\ UNCHANGED <<cfg, attempts, knownBad>>

\* entry of the handler: clear the session, then front channel or back channel
LogoutStart(r) ==
  /\ req[r].pc = "idle"
  /\ \E hs \in BOOLEAN :
       LET q == NewReq("logout", hs) IN
       IF ~hs
            THEN /\ req' = [req EXCEPT ![r] = Finish(q, "redirect_logout")]
                 /\ UNCHANGED session
            ELSE /\ session' = ClearSession(session)
                 /\ req' = [req EXCEPT ![r] =
                   IF cfg.frontChannel
                     THEN Finish(q, "logout_page")
                     ELSE Await(q, "logout", NULL, "loggingOut")]
  /\ UNCHANGED <<cfg, attempts, knownBad>>

\* mutant: a rejected blitzware.logout() is not caught locally and no
\* redirect follows
LogoutReturn_ErrorEscapes(r) ==
  /\ req[r].handler = "logout" /\ req[r].pc = "loggingOut"
  /\ \E res \in {"ok"} \cup LogoutErrors :
       req' = [req EXCEPT ![r] =
         Finish(Resume(req[r], res),
                IF res = "ok" THEN "redirect_logout" ELSE "logout_error_500")]
  /\ UNCHANGED <<session, cfg, attempts, knownBad>>

\* blitzware.logout() resolved or rejected: redirect either way
LogoutReturn(r) ==
  /\ req[r].handler = "logout" /\ req[r].pc = "loggingOut"
  /\ \E res \in {"ok"} \cup LogoutErrors :
       req' = [req EXCEPT ![r] = Finish(Resume(req[r], res), "redirect_logout")]
  /\ UNCHANGED <<session, cfg, attempts, knownBad>>

\* the response was delivered; the slot is free for the next request
Retire(r) ==
  /\ req[r].pc = "done"
  /\ req' = [req EXCEPT ![r] = IdleReq]
  /\ UNCHANGED <<session, cfg, attempts, knownBad>>

\* the middleware is set up with a client: when the constructor threw there
\* is none and no handler exists
ClientExists == cfg.blitzware.created

Next ==
  /\ ClientExists
  /\ \E r \in Slots :
         \/ (Quiet /\ AuthStart(r))
         \/ AuthValidateOk(r)
         \/ AuthValidateFail(r)
         \/ AuthRefreshOk(r)
         \/ AuthRefreshFail(r)
         \/ AuthUserInfoOk(r)
         \/ AuthUserInfoFail(r)
         \/ (Quiet /\ RequireSession(r))
         \/ (Quiet /\ CallbackStart(r))
         \/ CallbackExchangeOk(r)
         \/ CallbackExchangeFail(r)
         \/ CallbackUserInfoOk(r)
         \/ CallbackUserInfoFail(r)
         \/ (Quiet /\ Login(r))
         \/ (Quiet /\ LogoutStart(r))
         \/ LogoutReturn(r)
         \/ Retire(r)

Spec == Init /\ [][Next]_vars
\* ------------------------------------------- two requests sharing a session
\* the two requests of the race (the two request slots they are handled in)
Racers == {1, 2}

\* a logged-in session (tokens and user stored by an earlier callback),
\* auto-refresh enabled
InitRace ==
  /\ session = [EmptySession EXCEPT
        !.accessToken = "t1", !.refreshToken = "t2", !.user = "u1"]
  /\ cfg \in {c \in MiddlewareConfigs({TRUE}) : c.blitzware.created}
  /\ req = [r \in Slots |-> IdleReq]
  /\ attempts = <<>>
  /\ knownBad = FALSE

\* the continuations of blitzwareAuth, run whenever the awaited call returns
AuthStep(r) ==
  \/ AuthValidateOk(r)
  \/ AuthValidateFail(r)
  \/ AuthRefreshOk(r)
  \/ AuthRefreshFail(r)
  \/ AuthUserInfoOk(r)
  \/ AuthUserInfoFail(r)

\* each racer sends one blitzwareAuth request; the framework starts a handler
\* whenever a request arrives, also while the other one is suspended
NextRace ==
  /\ ClientExists
  /\ \E r \in Racers :
         \/ AuthStart(r)
         \/ AuthStep(r)

SpecRace == InitRace /\ [][NextRace]_vars

\* the same two requests handled one after the other
NextRaceSeq ==
  /\ ClientExists
  /\ \E r \in Racers :
         \/ (\A o \in Racers : req[o].pc \in {"idle", "done"}) /\ AuthStart(r)
         \/ AuthStep(r)

SpecRaceSeq == InitRace /\ [][NextRaceSeq]_vars
\* a blitzwareLogout request arriving while blitzwareAuth requests of the same
\* session are suspended (and the other way round)
NextLogoutRace ==
  /\ ClientExists
  /\ \E r \in Racers :
         \/ AuthStart(r)
         \/ AuthStep(r)
         \/ LogoutStart(r)
         \/ LogoutReturn(r)

SpecLogoutRace == InitRace /\ [][NextLogoutRace]_vars

\* a session on which blitzwareLogin has run: state and verifier stored, the
\* browser sent to the authorization service
InitCallbackRace ==
  /\ session = [EmptySession EXCEPT !.oauthState = "s1", !.codeVerifier = "v1"]
  /\ cfg \in {c \in MiddlewareConfigs(BOOLEAN) : c.blitzware.created}
  /\ req = [r \in Slots |-> IdleReq]
  /\ attempts = <<"s1">>
  /\ knownBad = FALSE

\* the continuations of blitzwareCallback, run whenever the awaited call returns
CallbackStep(r) ==
  \/ CallbackExchangeOk(r)
  \/ CallbackExchangeFail(r)
  \/ CallbackUserInfoOk(r)
  \/ CallbackUserInfoFail(r)

\* each racer sends one callback request; the second may arrive while the
\* first is suspended
NextCallbackRace ==
  /\ ClientExists
  /\ \E r \in Racers :
         \/ CallbackStart(r)
         \/ CallbackStep(r)

SpecCallbackRace == InitCallbackRace /\ [][NextCallbackRace]_vars

\* ================================================================ claims
\* the operations a request called, in order
Ops(r) == [i \in 1..Len(req[r].calls) |-> req[r].calls[i].op]

\* validateTokenAndGetUser was the only call of request r and it succeeded
ValidatedOk(r) ==
  /\ Ops(r) = <<"validateTokenAndGetUser">>
  /\ req[r].results = <<"ok">>

\* request r validated (failure), refreshed (success) and fetched the user (success)
RefreshedOk(r) ==
  /\ Ops(r) = <<"validateTokenAndGetUser", "refreshToken", "getUserInfo">>
  /\ Len(req[r].results) = 3
  /\ req[r].results[1] \in ValidateErrors
  /\ req[r].results[2] = "ok"
  /\ req[r].results[3] = "ok"

\* next was called by request r
CalledNext(r) == \E i \in 1..Len(req[r].out) : req[r].out[i] = "next"

\* slot r takes a new request of handler h in this step
Starts(r, h) == req[r].pc = "idle" /\ req'[r].handler = h

\* the token and user fields of the session are all empty
SessionCleared(s) ==
  s.accessToken = NULL /\ s.refreshToken = NULL /\ s.user = NULL

\* C1: blitzwareAuth calls next only after validateTokenAndGetUser succeeded or
\* refreshToken followed by getUserInfo both succeeded in the same request;
\* a request that finished any other way ended in a login redirect or a
\* server-error response.
C1_NextOnlyAfterValidation ==
  \A r \in Slots : req[r].handler = "auth" =>
    /\ CalledNext(r) => (ValidatedOk(r) \/ RefreshedOk(r))
    /\ (req[r].pc = "done" /\ ~(ValidatedOk(r) \/ RefreshedOk(r))) =>
         req[r].out \in {<<"redirect_login">>, <<"config_error_500">>,
                         <<"auth_error_500">>}

C1_Witness ==
  \E r \in Slots :
    req[r].handler = "auth" /\ RefreshedOk(r) /\ req[r].out = <<"next">>

\* C2: a blitzwareAuth request whose session exists but holds no access token
\* redirects to the login URL, calls no protocol-client operation, does not
\* call next and leaves the session as it is.
C2_NoTokenRedirectsWithoutCalls ==
  [][\A r \in Slots :
       (Starts(r, "auth") /\ req'[r].hasSession /\ ~Truthy(session.accessToken)) =>
         /\ req'[r].out = <<"redirect_login">>
         /\ req'[r].calls = <<>>
         /\ req'[r].pc = "done"
         /\ session' = session]_vars

C2_Witness ==
  \E r \in Slots :
    /\ req[r].handler = "auth" /\ req[r].hasSession
    /\ ~Truthy(session.accessToken)
    /\ req[r].out = <<"redirect_login">> /\ req[r].calls = <<>>

\* C3: when validateTokenAndGetUser succeeds, blitzwareAuth attaches the
\* returned profile (and the access token it validated) to the request when
\* attachUser is set, writes the profile into the session's user field, calls
\* next, makes no further call, and leaves the session's accessToken and
\* refreshToken unchanged.
C3_ValidateOkAttaches ==
  [][\A r \in Slots :
       (/\ req[r].handler = "auth" /\ req[r].pc = "validating"
        /\ req'[r].results = <<"ok">>) =>
         /\ req'[r].out = <<"next">>
         /\ req'[r].user \in Users
         /\ session'.user = req'[r].user
         /\ req'[r].blitzwareUser = (IF cfg.attachUser THEN req'[r].user ELSE NULL)
         /\ req'[r].blitzwareAccessToken =
              (IF cfg.attachUser THEN session.accessToken ELSE NULL)
         /\ req'[r].calls = req[r].calls
         /\ session'.accessToken = session.accessToken
         /\ session'.refreshToken = session.refreshToken]_vars

C3_Witness ==
  \E r \in Slots :
    /\ req[r].handler = "auth" /\ ValidatedOk(r) /\ req[r].out = <<"next">>
    /\ req[r].blitzwareUser \in Users
    /\ session.user = req[r].blitzwareUser
    /\ Truthy(session.refreshToken)
\* C4: when validation fails, auto-refresh is enabled, a refresh token is
\* present, and refreshToken and the following getUserInfo succeed, the
\* request ends in next with the session's accessToken equal to the newly
\* issued access token, the session's refreshToken equal to the new refresh
\* token when the response carried one and to the refresh token that was
\* presented otherwise, and the session's user equal to the profile fetched
\* with the new access token (attached to the request when attachUser is set).
C4_RefreshStoresNewTokens ==
  \A r \in Slots :
    (req[r].handler = "auth" /\ req[r].pc = "done" /\ RefreshedOk(r)) =>
      LET tr == req[r].tokenResponse IN
      /\ cfg.autoRefresh
      /\ req[r].out = <<"next">>
      /\ tr.access_token \in Tokens
      /\ session.accessToken = tr.access_token
      /\ session.refreshToken =
           (IF Truthy(tr.refresh_token) THEN tr.refresh_token
                                        ELSE req[r].calls[2].arg)
      /\ req[r].calls[2].arg \in Tokens
      /\ req[r].calls[3].arg = tr.access_token
      /\ req[r].user \in Users
      /\ session.user = req[r].user
      /\ req[r].blitzwareUser = (IF cfg.attachUser THEN req[r].user ELSE NULL)
      /\ req[r].blitzwareAccessToken =
           (IF cfg.attachUser THEN tr.access_token ELSE NULL)

C4_Witness ==
  \E r \in Slots :
    /\ req[r].handler = "auth" /\ req[r].pc = "done" /\ RefreshedOk(r)
    /\ ~Truthy(req[r].tokenResponse.refresh_token)
    /\ req[r].tokenResponse.access_token # req[r].accessToken
    /\ session.accessToken = req[r].tokenResponse.access_token
    /\ session.refreshToken = req[r].calls[2].arg
    /\ session.user = req[r].user

\* C5: when validation fails and autoRefresh is disabled or the session has
\* no refresh token, blitzwareAuth makes no refreshToken call (no further
\* call at all), sets the session's accessToken, refreshToken and user to
\* empty, and redirects to the login URL.
C5_NoRefreshClearsAndRedirects ==
  [][\A r \in Slots :
       (/\ req[r].handler = "auth" /\ req[r].pc = "validating"
        /\ Len(req'[r].results) = 1 /\ req'[r].results[1] \in ValidateErrors
        /\ (~cfg.autoRefresh \/ ~Truthy(session.refreshToken))) =>
         /\ req'[r].calls = req[r].calls
         /\ SessionCleared(session')
         /\ session'.oauthState = session.oauthState
         /\ session'.codeVerifier = session.codeVerifier
         /\ req'[r].out = <<"redirect_login">>
         /\ req'[r].pc = "done"]_vars

C5_Witness ==
  \E r \in Slots :
    /\ req[r].handler = "auth" /\ req[r].pc = "done"
    /\ Ops(r) = <<"validateTokenAndGetUser">>
    /\ Len(req[r].results) = 1 /\ req[r].results[1] \in ValidateErrors
    /\ cfg.autoRefresh
    /\ SessionCleared(session)
    /\ req[r].out = <<"redirect_login">>

\* a blitzwareAuth request that got past the token check and was answered
\* with the login redirect: its validation failed
RedirectedAfterFailedValidation(q) ==
  /\ q.handler = "auth" /\ q.pc = "done"
  /\ q.out = <<"redirect_login">>
  /\ Len(q.results) >= 1

\* C6: whenever blitzwareAuth redirects to login after a failed validation,
\* the step that issues the redirect leaves accessToken, refreshToken and user
\* empty; and a blitzwareAuth request that starts on that session before any
\* callback started redirects to login without any protocol-client call.
C6_ClearedBeforeRedirectNoRetry ==
  [][\A r \in Slots :
       /\ (req[r].pc # "done" /\ RedirectedAfterFailedValidation(req'[r])) =>
            (SessionCleared(session') /\ knownBad')
       /\ (knownBad /\ Starts(r, "auth") /\ req'[r].hasSession) =>
            /\ req'[r].out = <<"redirect_login">>
            /\ req'[r].calls = <<>>
            /\ req'[r].pc = "done"]_vars

C6_Witness ==
  \E r \in Slots :
    /\ knownBad
    /\ req[r].handler = "auth" /\ req[r].hasSession /\ req[r].pc = "done"
    /\ req[r].calls = <<>> /\ req[r].out = <<"redirect_login">>
    /\ Truthy(session.oauthState)

\* request r validated (failure), refreshed (success), then getUserInfo failed
RefreshedThenUserInfoFailed(r) ==
  /\ Ops(r) = <<"validateTokenAndGetUser", "refreshToken", "getUserInfo">>
  /\ Len(req[r].results) = 3
  /\ req[r].results[1] \in ValidateErrors
  /\ req[r].results[2] = "ok"
  /\ req[r].results[3] \in UserInfoErrors

C8_NoSessionConfigError ==
  [][\A r \in Slots :
       (/\ req[r].pc = "idle"
        /\ req'[r].handler \in {"auth", "requireSession", "login", "callback"}
        /\ ~req'[r].hasSession) =>
         /\ req'[r].out = <<"config_error_500">>
         /\ req'[r].pc = "done"
         /\ req'[r].calls = <<>>
         /\ req'[r].blitzwareUser = NULL
         /\ session' = session]_vars

C8_Witness ==
  \E r \in Slots :
    /\ req[r].handler = "login" /\ ~req[r].hasSession
    /\ req[r].out = <<"config_error_500">> /\ req[r].calls = <<>>
    /\ session = EmptySession

\* C9: requireBlitzwareSession decides on the presence of the session's user
\* record alone: present -> next is called (and that user is attached to the
\* request when attachUser is set); absent -> redirect to the login URL. In
\* both cases no protocol-client call is made and no session field changes.
C9_SessionOnlyMode ==
  [][\A r \in Slots :
       (Starts(r, "requireSession") /\ req'[r].hasSession) =>
         /\ req'[r].pc = "done"
         /\ req'[r].calls = <<>>
         /\ session' = session
         /\ Truthy(session.user) =>
                 /\ req'[r].out = <<"next">>
                 /\ req'[r].blitzwareUser =
                   (IF cfg.attachUser THEN session.user ELSE NULL)
         /\ ~Truthy(session.user) =>
                 /\ req'[r].out = <<"redirect_login">>
                 /\ req'[r].blitzwareUser = NULL]_vars

C9_Witness ==
  \E r \in Slots :
    /\ req[r].handler = "requireSession" /\ req[r].hasSession
    /\ req[r].out = <<"next">>
    /\ req[r].blitzwareUser \in Users
    /\ req[r].blitzwareUser = session.user
    /\ req[r].calls = <<>>

\* handleCallback and the following getUserInfo of request r both succeeded
CallbackSucceeded(r) ==
  /\ Ops(r) = <<"handleCallback", "getUserInfo">>
  /\ req[r].results = <<"ok", "ok">>

\* C10: when handleCallback and the following getUserInfo both succeed,
\* blitzwareCallback leaves the session holding the issued access token, the
\* issued refresh token when one was issued, and the fetched user profile,
\* with oauthState and codeVerifier cleared, and redirects to the success
\* location.
C10_CallbackSuccessStoresSession ==
  \A r \in Slots :
    (req[r].handler = "callback" /\ req[r].pc = "done" /\ CallbackSucceeded(r)) =>
      LET tr == req[r].tokenResponse IN
      /\ tr.access_token \in Tokens
      /\ session.accessToken = tr.access_token
      /\ Truthy(tr.refresh_token) => session.refreshToken = tr.refresh_token
      /\ req[r].calls[2].arg = tr.access_token
      /\ req[r].user \in Users
      /\ session.user = req[r].user
      /\ session.oauthState = NULL
      /\ session.codeVerifier = NULL
      /\ req[r].out = <<"redirect_success">>

C10_Witness ==
  \E r \in Slots :
    /\ req[r].handler = "callback" /\ req[r].pc = "done" /\ CallbackSucceeded(r)
    /\ req[r].calls[1].arg[2] \in StateVals
    /\ req[r].calls[1].arg[3] \in Verifiers
    /\ req[r].query.state = req[r].calls[1].arg[2]
    /\ Truthy(req[r].tokenResponse.refresh_token)
    /\ session.refreshToken = req[r].tokenResponse.refresh_token
    /\ session.oauthState = NULL /\ session.codeVerifier = NULL
    /\ req[r].out = <<"redirect_success">>
\* the codes of the Error Taxonomy a callback can fail with
CallbackErrorCodes ==
  {"missing_authorization_code", "invalid_state"}
    \cup ExchangeErrors \cup UserInfoErrors

\* the last protocol-client call of request r raised an error
LastCallFailed(r) ==
  /\ Len(req[r].results) >= 1
  /\ req[r].results[Len(req[r].results)] # "ok"

\* C11: when handleCallback or getUserInfo raises an Error-Taxonomy error
\* inside blitzwareCallback, the handler redirects to the failure location
\* with error_code set to the code of that error, and sends no success
\* redirect.
C11_CallbackFailureCarriesCode ==
  \A r \in Slots :
    (req[r].handler = "callback" /\ req[r].pc = "done" /\ LastCallFailed(r)) =>
      /\ req[r].out = <<"redirect_error">>
      /\ req[r].errorCode = req[r].results[Len(req[r].results)]
      /\ req[r].errorCode \in CallbackErrorCodes

C11_Witness ==
  \E r \in Slots :
    /\ req[r].handler = "callback" /\ req[r].pc = "done"
    /\ Ops(r) = <<"handleCallback", "getUserInfo">>
    /\ req[r].results = <<"ok", "userinfo_failed">>
    /\ req[r].errorCode = "userinfo_failed"
    /\ req[r].out = <<"redirect_error">>

\* C12: the stored state is single-use: once a blitzwareCallback request on
\* the session has completed, in the success redirect or in the failure
\* redirect, the session's oauthState and codeVerifier are cleared.
C12_StateClearedAfterCallback ==
  \A r \in Slots :
    (req[r].handler = "callback" /\ req[r].hasSession /\ req[r].pc = "done") =>
      /\ session.oauthState = NULL
      /\ session.codeVerifier = NULL

LatestAttempt == attempts[Len(attempts)]

\* C14: after two login-initiate requests on the same session (with different
\* states) the stored state is the second attempt's; a callback carrying a
\* code and the first attempt's state is rejected with invalid_state and
\* writes nothing into the session, a callback carrying a code and the second
\* attempt's state passes the state check (the token exchange is issued).
C14_SecondLoginSupersedesFirst ==
  [][\A r \in Slots :
       (/\ Starts(r, "callback") /\ req'[r].hasSession
        /\ Len(attempts) = 2 /\ attempts[1] # attempts[2]
        /\ Truthy(req'[r].query.code)) =>
         /\ session.oauthState = attempts[2]
         /\ (req'[r].query.state = attempts[1]) =>
                 /\ req'[r].errorCode = "invalid_state"
                 /\ req'[r].out = <<"redirect_error">>
                 /\ session' = session
         /\ (req'[r].query.state = attempts[2]) =>
                 /\ req'[r].pc = "exchanging"
                 /\ req'[r].errorCode = NULL
                 /\ req'[r].out = <<>>]_vars

C14_Witness ==
  \E r \in Slots :
    /\ req[r].handler = "callback" /\ req[r].pc = "done"
    /\ Len(attempts) = 2 /\ attempts[1] # attempts[2]
    /\ req[r].query.code \in Codes
    /\ req[r].query.state = attempts[1]
    /\ session.oauthState = attempts[2]
    /\ req[r].errorCode = "invalid_state"
    /\ session.accessToken = NULL

\* C15: handleCallback with a state but no code fails with
\* missing_authorization_code, whatever the state; with a code but a state
\* different from expectedState it fails with invalid_state; in both cases
\* the token exchange is not issued.
C15_CallbackParameterChecks ==
  [][\A r \in Slots :
       (Starts(r, "callback") /\ req'[r].hasSession) =>
         /\ (~Truthy(req'[r].query.code) /\ Truthy(req'[r].query.state)) =>
                 /\ req'[r].results = <<"missing_authorization_code">>
                 /\ req'[r].pc = "done"
                 /\ Ops(r)' = <<"handleCallback">>
         /\ (Truthy(req'[r].query.code)
               /\ req'[r].query.state # session.oauthState) =>
                 /\ req'[r].results = <<"invalid_state">>
                 /\ req'[r].pc = "done"
                 /\ Ops(r)' = <<"handleCallback">>]_vars

C15_Witness ==
  \E r \in Slots :
    /\ req[r].handler = "callback" /\ req[r].pc = "done"
    /\ Ops(r) = <<"handleCallback">>
    /\ req[r].query.code = NULL
    /\ req[r].query.state \in StateVals
    /\ req[r].calls[1].arg[2] \in StateVals
    /\ req[r].query.state # req[r].calls[1].arg[2]
    /\ req[r].results = <<"missing_authorization_code">>

\* C16: round trip: a callback that carries a code and the state the latest
\* login attempt generated and stored is handed to handleCallback with that
\* stored state and the stored verifier, and does not fail with
\* invalid_state: the token exchange is issued.
C16_LoginCallbackRoundTrip ==
  [][\A r \in Slots :
       (/\ Starts(r, "callback") /\ req'[r].hasSession
        /\ Len(attempts) >= 1
        /\ req'[r].query.state = LatestAttempt
        /\ Truthy(req'[r].query.code)) =>
         /\ req'[r].calls =
              <<Call("handleCallback",
                     <<req'[r].query, LatestAttempt, session.codeVerifier>>)>>
         /\ session.codeVerifier \in Verifiers
         /\ req'[r].results = <<>>
         /\ req'[r].pc = "exchanging"]_vars

C16_Witness ==
  \E r \in Slots :
    /\ req[r].handler = "callback" /\ req[r].pc = "exchanging"
    /\ Len(attempts) = 1
    /\ req[r].query.state = LatestAttempt
    /\ req[r].calls[1].arg[2] = LatestAttempt
    /\ req[r].results = <<>>

C19_ClearedBeforeRemoteLogout ==
  \A r \in Slots :
    (/\ req[r].handler = "logout" /\ req[r].hasSession
     /\ (Len(req[r].calls) >= 1 \/ req[r].pc = "done")) =>
      SessionCleared(session)

C19_Witness ==
  \E r \in Slots :
    /\ req[r].handler = "logout" /\ req[r].pc = "loggingOut"
    /\ Ops(r) = <<"logout">> /\ req[r].results = <<>>
    /\ SessionCleared(session)

\* s is a prefix of t
IsPrefix(s, t) ==
  /\ Len(s) <= Len(t)
  /\ \A i \in 1..Len(s) : s[i] = t[i]

\* C20: within one blitzwareAuth request the calls are sequential and
\* conditional: validateTokenAndGetUser first and at most once, refreshToken
\* at most once and only after validation failed, getUserInfo at most once
\* and only after refreshToken succeeded; a call is issued only when every
\* earlier call has returned.
C20_AuthCallsSequential ==
  \A r \in Slots : req[r].handler = "auth" =>
    /\ IsPrefix(Ops(r), <<"validateTokenAndGetUser", "refreshToken", "getUserInfo">>)
    /\ Len(req[r].results) <= Len(req[r].calls)
    /\ Len(req[r].calls) <= Len(req[r].results) + 1
    /\ Len(req[r].calls) >= 2 => req[r].results[1] \in ValidateErrors
    /\ Len(req[r].calls) >= 3 => req[r].results[2] = "ok"
    /\ (req[r].pc \in {"validating", "refreshing", "userinfo"}) <=>
         (Len(req[r].calls) = Len(req[r].results) + 1)

C20_Witness ==
  \E r \in Slots :
    /\ req[r].handler = "auth" /\ req[r].pc = "userinfo"
    /\ Ops(r) = <<"validateTokenAndGetUser", "refreshToken", "getUserInfo">>
    /\ req[r].results = <<"token_inactive", "ok">>

\* C21: blitzwareAuth handles a failed validation or refresh by what failed,
\* never by the error code: the session writes, the calls issued and the
\* outcome of the step that receives the failure are given by the session and
\* the configuration alone, so a network_error (a timeout included) and a
\* remote rejection are handled alike; the failed call is not issued again.
C21_FailureCodeIsIrrelevant ==
  [][\A r \in Slots :
       /\ (/\ req[r].handler = "auth" /\ req[r].pc = "validating"
           /\ Len(req'[r].results) = 1
           /\ req'[r].results[1] \in ValidateErrors) =>
            LET refresh == cfg.autoRefresh /\ Truthy(session.refreshToken) IN
            /\ session' = (IF refresh THEN session ELSE ClearSession(session))
            /\ req'[r].calls =
                 (IF refresh
                    THEN Append(req[r].calls,
                                Call("refreshToken", session.refreshToken))
                    ELSE req[r].calls)
            /\ req'[r].out = (IF refresh THEN <<>> ELSE <<"redirect_login">>)
            /\ req'[r].pc = (IF refresh THEN "refreshing" ELSE "done")
       /\ (/\ req[r].handler = "auth" /\ req[r].pc = "refreshing"
           /\ Len(req'[r].results) = 2
           /\ req'[r].results[2] \in RefreshErrors) =>
            /\ session' = ClearSession(session)
            /\ req'[r].calls = req[r].calls
            /\ req'[r].out = <<"redirect_login">>
            /\ req'[r].pc = "done"]_vars

C21_Witness ==
  \E r \in Slots :
    /\ req[r].handler = "auth" /\ req[r].pc = "refreshing"
    /\ Ops(r) = <<"validateTokenAndGetUser", "refreshToken">>
    /\ req[r].results = <<"network_error">>
    /\ req[r].calls[2].arg = session.refreshToken
    /\ Truthy(session.accessToken)

\* request r found its token rejected and called refreshToken
TriedRefresh(r) ==
  /\ req[r].handler = "auth"
  /\ Len(req[r].calls) >= 2
  /\ req[r].calls[2].op = "refreshToken"

\* both requests validated the same (expired) access token and both presented
\* the same refresh token
RacedRefresh(a, b) ==
  /\ TriedRefresh(a) /\ TriedRefresh(b)
  /\ req[a].calls[1] = req[b].calls[1]
  /\ req[a].calls[2] = req[b].calls[2]

\* C22: when two blitzwareAuth requests on one session both found the same
\* access token rejected and both called refreshToken with the same refresh
\* token, the session and the outcomes they end with are ones the two
\* requests handled one after the other end with: a request was sent to
\* login only if the session ends cleared, the session holds a user only
\* together with an access token, and when both called next the session
\* holds tokens and user.
C22_RaceWithinSequentialOutcomes ==
  \A a \in Racers : \A b \in Racers \ {a} :
    (RacedRefresh(a, b) /\ req[a].pc = "done" /\ req[b].pc = "done") =>
      /\ (req[a].out = <<"redirect_login">>) => SessionCleared(session)
      /\ Truthy(session.user) => Truthy(session.accessToken)
      /\ (req[a].out = <<"next">> /\ req[b].out = <<"next">>) =>
           /\ Truthy(session.accessToken)
           /\ Truthy(session.refreshToken)
           /\ Truthy(session.user)

\* the validation of request r: what validateTokenAndGetUser returned
ValidationResult(q) == q.results[1]

\* C23: validateTokenAndGetUser fails with token_inactive exactly when the
\* introspection reports the token inactive, and then makes no getUserInfo
\* round trip; when the introspection reports active it makes the getUserInfo
\* round trip and returns the profile, or raises the error, that round trip
\* gave. In blitzwareAuth a token_inactive failure leads to the refresh call
\* whenever auto-refresh is enabled and a refresh token is stored.
C23_InactiveTokenNoUserInfo ==
  [][\A r \in Slots :
       (/\ req[r].handler = "auth" /\ req[r].pc = "validating"
        /\ Len(req'[r].results) = 1) =>
         LET q == req'[r]
             i == q.introspection
         IN
         /\ Len(q.inner) >= 1 /\ q.inner[1].op = "introspectToken"
         /\ (ValidationResult(q) = "token_inactive") <=>
              (q.inner[1].answer = "inactive")
         /\ (q.inner[1].answer = "inactive") =>
              /\ ~Truthy(i.raised) /\ ~i.active
              /\ Len(q.inner) = 1
              /\ q.user = NULL /\ q.blitzwareUser = NULL
              /\ (cfg.autoRefresh /\ Truthy(session.refreshToken)) =>
                   /\ q.pc = "refreshing"
                   /\ q.calls[2] = Call("refreshToken", session.refreshToken)
                   /\ session' = session
         /\ (q.inner[1].answer = "active") =>
              /\ i.active
              /\ Len(q.inner) = 2 /\ q.inner[2].op = "getUserInfo"
              /\ (q.inner[2].answer \in Users) =>
                   /\ ValidationResult(q) = "ok"
                   /\ q.user = q.inner[2].answer
              /\ (q.inner[2].answer \in UserInfoErrors) =>
                   ValidationResult(q) = q.inner[2].answer]_vars

C23_Witness ==
  \E r \in Slots :
    /\ req[r].handler = "auth" /\ req[r].pc = "refreshing"
    /\ req[r].results = <<"token_inactive">>
    /\ Len(req[r].inner) = 1
    /\ req[r].inner[1] = RoundTrip("introspectToken", "inactive")
    /\ Ops(r) = <<"validateTokenAndGetUser", "refreshToken">>

\* C24: introspectToken answers an inactive token with a result whose active
\* is false and raises nothing; it raises only when the round trip itself
\* failed, and then network_error.
C24_IntrospectInactiveIsResult ==
  \A r \in Slots :
    (req[r].handler = "auth" /\ Len(req[r].inner) >= 1) =>
      LET i == req[r].introspection IN
      /\ i.endpoint = req[r].inner[1].answer
      /\ i.endpoint \in IntrospectOutcomes
      /\ (i.endpoint = "inactive") => (i.raised = NULL /\ i.active = FALSE)
      /\ (i.endpoint = "active") => (i.raised = NULL /\ i.active = TRUE)
      /\ Truthy(i.raised) <=> (i.endpoint = "network_error")
      /\ Truthy(i.raised) => i.raised = "network_error"

C24_Witness ==
  \E r \in Slots :
    /\ req[r].handler = "auth" /\ Len(req[r].inner) = 1
    /\ req[r].introspection =
         [endpoint |-> "inactive", raised |-> NULL, active |-> FALSE]
    /\ req[r].results = <<"token_inactive">>

\* C25: every blitzwareLogin request with a session takes a newly generated
\* state and the verifier getAuthorizationUrl returned (never the values a
\* previous attempt left in the session), and in the step that issues the
\* redirect to the authorization URL the session holds exactly that state
\* (the one in the URL) and that verifier.
C25_LoginStoresStateAndVerifier ==
  [][\A r \in Slots :
       (Starts(r, "login") /\ req'[r].hasSession) =>
         /\ req'[r].out = <<"redirect_authorize">>
         /\ req'[r].pc = "done"
         /\ req'[r].authState \in StateVals
         /\ req'[r].authVerifier \in Verifiers
         /\ session'.oauthState = req'[r].authState
         /\ session'.codeVerifier = req'[r].authVerifier]_vars

C25_Witness ==
  \E r \in Slots :
    /\ req[r].handler = "login" /\ req[r].hasSession /\ req[r].pc = "done"
    /\ Len(attempts) = 2 /\ attempts[1] # attempts[2]
    /\ req[r].authState = attempts[2]
    /\ req[r].authVerifier = "v2"
    /\ session.oauthState = req[r].authState
    /\ session.codeVerifier = "v2"
    /\ req[r].out = <<"redirect_authorize">>

\* what a handler answers with: next, a redirect, a status code or a page
Responses ==
  {"next", "redirect_login", "redirect_success", "redirect_error",
   "redirect_authorize", "redirect_logout", "logout_page",
   "config_error_500", "auth_error_500", "login_failed_500"}

\* the positions in which a handler is suspended at an await
AwaitPositions == {"validating", "refreshing", "userinfo", "exchanging", "loggingOut"}

\* C26: whatever a protocol-client call returns (success or any error of
\* the taxonomy), the step of blitzwareAuth, blitzwareLogin,
\* blitzwareCallback or blitzwareLogout that receives it either answers with
\* exactly one response and returns, or issues the next call: a handler that
\* has returned has produced a response, a handler that has not is waiting
\* for exactly one call, and no error leaves a handler unanswered.
C26_EveryOutcomeAnswered ==
  [][\A r \in Slots :
       LET q == req'[r] IN
       (q.handler \in {"auth", "login", "callback", "logout"}) =>
         /\ q.pc \in AwaitPositions \cup {"done"}
         /\ (q.pc = "done") =>
              /\ Len(q.out) = 1 /\ q.out[1] \in Responses
              /\ Len(q.calls) = Len(q.results)
         /\ (q.pc \in AwaitPositions) =>
              /\ q.out = <<>>
              /\ Len(q.calls) = Len(q.results) + 1
         /\ (Len(q.results) > Len(req[r].results)) =>
              /\ Len(q.results) = Len(req[r].results) + 1
              /\ \/ q.pc = "done"
                 \/ Len(q.calls) = Len(req[r].calls) + 1]_vars

C26_Witness ==
  \E r \in Slots :
    /\ req[r].handler = "callback" /\ req[r].pc = "done"
    /\ Ops(r) = <<"handleCallback", "getUserInfo">>
    /\ req[r].results = <<"ok", "network_error">>
    /\ req[r].out = <<"redirect_error">>

\* the codes of the required fields the configuration lacks
MissingCodes(config) ==
  {c \in {"missing_client_id", "missing_client_secret", "missing_redirect_uri"} :
     \/ c = "missing_client_id" /\ Missing(config.clientId)
     \/ c = "missing_client_secret" /\ Missing(config.clientSecret)
     \/ c = "missing_redirect_uri" /\ Missing(config.redirectUri)}

\* C27: constructing the protocol client with clientId, clientSecret or
\* redirectUri missing or empty fails in the constructor with the code of a
\* field that is missing; no client exists then, so no handler runs and no
\* protocol-client operation is ever called with an invalid configuration.
C27_ConstructionFailsFast ==
  LET b == cfg.blitzware IN
  /\ (MissingCodes(b.config) # {}) =>
       /\ ~b.created
       /\ b.error \in MissingCodes(b.config)
       /\ \A r \in Slots : req[r] = IdleReq
       /\ session = EmptySession
  /\ (MissingCodes(b.config) = {}) => (b.created /\ b.error = NULL)
  /\ (\E r \in Slots : req[r].handler # "none") =>
       (b.created /\ MissingCodes(b.config) = {})

C27_Witness ==
  /\ cfg.blitzware.config =
       [clientId |-> "id", clientSecret |-> "secret", redirectUri |-> ""]
  /\ cfg.blitzware.error = "missing_redirect_uri"
  /\ ~cfg.blitzware.created
  /\ \A r \in Slots : req[r] = IdleReq

\* C28: with attachUser false neither blitzwareAuth nor
\* requireBlitzwareSession puts the profile or the access token on the
\* request, and nothing else changes: blitzwareAuth still refreshes after a
\* failed validation, still stores the refreshed tokens and the fresh
\* profile in the session and still calls next on success, and
\* requireBlitzwareSession still calls next when the session holds a user.
C28_AttachUserOffChangesNothingElse ==
  [][~cfg.attachUser =>
       \A r \in Slots :
         LET q == req'[r] IN
         /\ q.blitzwareUser = NULL /\ q.blitzwareAccessToken = NULL
         /\ (/\ req[r].handler = "auth" /\ req[r].pc = "validating"
             /\ q.results = <<"ok">>) =>
              /\ q.out = <<"next">>
              /\ q.user \in Users /\ session'.user = q.user
              /\ session'.accessToken = session.accessToken
         /\ (/\ req[r].handler = "auth" /\ req[r].pc = "validating"
             /\ Len(q.results) = 1 /\ q.results[1] \in ValidateErrors
             /\ cfg.autoRefresh /\ Truthy(session.refreshToken)) =>
              /\ q.pc = "refreshing"
              /\ q.calls[2] = Call("refreshToken", session.refreshToken)
         /\ (/\ req[r].handler = "auth" /\ req[r].pc = "refreshing"
             /\ Len(q.results) = 2 /\ q.results[2] = "ok") =>
              /\ session'.accessToken = q.tokenResponse.access_token
              /\ session'.accessToken \in Tokens
              /\ session'.refreshToken =
                   (IF Truthy(q.tokenResponse.refresh_token)
                      THEN q.tokenResponse.refresh_token
                      ELSE session.refreshToken)
              /\ q.calls[3] = Call("getUserInfo", q.tokenResponse.access_token)
         /\ (/\ req[r].handler = "auth" /\ req[r].pc = "userinfo"
             /\ Len(q.results) = 3 /\ q.results[3] = "ok") =>
              /\ q.out = <<"next">>
              /\ q.user \in Users /\ session'.user = q.user
         /\ (/\ Starts(r, "requireSession") /\ q.hasSession
             /\ Truthy(session.user)) =>
              /\ q.out = <<"next">>
              /\ session' = session]_vars

C28_Witness ==
  \E r \in Slots :
    /\ ~cfg.attachUser
    /\ req[r].handler = "auth" /\ req[r].pc = "done" /\ RefreshedOk(r)
    /\ req[r].out = <<"next">>
    /\ req[r].blitzwareUser = NULL /\ req[r].blitzwareAccessToken = NULL
    /\ session.user = req[r].user /\ req[r].user \in Users
    /\ session.accessToken = req[r].tokenResponse.access_token

\* C29: a blitzwareLogout request (with a session) in front-channel mode
\* never calls blitzware.logout(): it answers with the page that posts to
\* the service's logout endpoint from the browser and then navigates to
\* redirectUrl. In back-channel mode it calls blitzware.logout() exactly
\* once and redirects to redirectUrl when the call has returned, resolved
\* or rejected.
C29_LogoutChannels ==
  \A r \in Slots :
    (req[r].handler = "logout" /\ req[r].hasSession) =>
      /\ cfg.frontChannel =>
           /\ req[r].calls = <<>> /\ req[r].results = <<>>
           /\ req[r].pc = "done"
           /\ req[r].out = <<"logout_page">>
      /\ ~cfg.frontChannel =>
           /\ Ops(r) = <<"logout">>
           /\ \/ /\ req[r].pc = "loggingOut"
                 /\ req[r].results = <<>> /\ req[r].out = <<>>
              \/ /\ req[r].pc = "done"
                 /\ Len(req[r].results) = 1
                 /\ req[r].results[1] \in {"ok"} \cup LogoutErrors
                 /\ req[r].out = <<"redirect_logout">>

C29_Witness ==
  \E r \in Slots :
    /\ cfg.frontChannel
    /\ req[r].handler = "logout" /\ req[r].hasSession /\ req[r].pc = "done"
    /\ req[r].calls = <<>>
    /\ req[r].out = <<"logout_page">>

\* the terminal outcomes of blitzwareAuth
AuthOutcomes ==
  {"next", "redirect_login", "config_error_500", "auth_error_500"}

\* C30: a blitzwareAuth invocation produces exactly one terminal outcome out
\* of next, the login redirect and a 500 response, whatever the validation,
\* the refresh and the user-info fetch return: while it is suspended it has
\* produced none, when it has returned it has produced exactly one, and
\* never next together with a response or two responses.
C30_AuthExactlyOneOutcome ==
  \A r \in Slots : req[r].handler = "auth" =>
    /\ Len(req[r].out) <= 1
    /\ \A i \in 1..Len(req[r].out) : req[r].out[i] \in AuthOutcomes
    /\ (req[r].pc = "done") <=> (Len(req[r].out) = 1)
    /\ (req[r].pc # "done") => req[r].pc \in {"validating", "refreshing", "userinfo"}

C30_Witness ==
  \E r \in Slots :
    /\ req[r].handler = "auth" /\ req[r].pc = "done"
    /\ Ops(r) = <<"validateTokenAndGetUser", "refreshToken", "getUserInfo">>
    /\ req[r].results = <<"userinfo_failed", "ok", "ok">>
    /\ req[r].out = <<"next">>

\* a blitzwareLogout request with a session has run its clearing step
LoggedOut == \E r \in Racers : req[r].handler = "logout" /\ req[r].hasSession

\* C31: once blitzwareLogout has cleared the session, accessToken,
\* refreshToken and user stay empty (no callback runs here), also when a
\* blitzwareAuth request was suspended at an await while the logout ran; and
\* in every state a stored user comes with a stored access token.
C31_LoggedOutStaysEmpty ==
  /\ LoggedOut => SessionCleared(session)
  /\ Truthy(session.user) => Truthy(session.accessToken)

\* callback request r got past handleCallback's parameter checks: the token
\* exchange was issued
PassedStateCheck(r) ==
  /\ req[r].handler = "callback"
  /\ Ops(r) # <<>> /\ req[r].calls[1].op = "handleCallback"
  /\ \/ req[r].pc = "exchanging"
     \/ /\ Len(req[r].results) >= 1
        /\ req[r].results[1] \in {"ok"} \cup ExchangeErrors

\* C32: of two blitzwareCallback requests on one session that carry the same
\* code and state, at most one passes the state check and reaches the token
\* exchange.
C32_StateAuthorisesOneCallback ==
  \A a \in Racers : \A b \in Racers \ {a} :
    (/\ req[a].handler = "callback" /\ req[b].handler = "callback"
     /\ req[a].query = req[b].query /\ Truthy(req[a].query.code)) =>
      ~(PassedStateCheck(a) /\ PassedStateCheck(b))

\* C33: after a successful blitzwareCallback the session's refreshToken is
\* the refresh token of that callback's token response, or empty when the
\* response carried none: no refresh token of an earlier login stays next to
\* the newly issued access token.
C33_NoStaleRefreshToken ==
  \A r \in Slots :
    (req[r].handler = "callback" /\ req[r].pc = "done" /\ CallbackSucceeded(r)) =>
      /\ session.accessToken = req[r].tokenResponse.access_token
      /\ session.refreshToken = req[r].tokenResponse.refresh_token

\* callback request r is the only request the session has seen
OnlyRequest(r) == \A o \in Slots \ {r} : req[o].pc = "idle"

\* C34: a blitzwareCallback request that ends in the failure redirect leaves
\* accessToken, refreshToken and user as they were before the request (here:
\* empty, the request being the first on a session that has only logged in),
\* also when the token exchange succeeded and only getUserInfo failed.
C34_FailedCallbackWritesNothing ==
  \A r \in Racers :
    (/\ req[r].handler = "callback" /\ req[r].hasSession
     /\ req[r].pc = "done" /\ req[r].out = <<"redirect_error">>
     /\ OnlyRequest(r)) =>
      SessionCleared(session)

TokenFields(s) == <<s.accessToken, s.refreshToken, s.user>>

PkceFields(s) == <<s.oauthState, s.codeVerifier>>

\* C35: frame. A step of blitzwareLogin leaves accessToken, refreshToken and
\* user of the session as they are; a step of blitzwareLogout leaves
\* oauthState and codeVerifier as they are; no step of blitzwareAuth changes
\* oauthState or codeVerifier.
C35_HandlerFrames ==
  [][\A r \in Slots :
       req'[r] # req[r] =>
         /\ req'[r].handler = "login" =>
               TokenFields(session') = TokenFields(session)
         /\ req'[r].handler \in {"logout", "auth"} =>
               PkceFields(session') = PkceFields(session)]_vars

\* a login answered on a logged-in session, the tokens and the user still
\* there next to the new pending state
C35_Witness ==
  \E r \in Slots :
    /\ req[r].handler = "login" /\ req[r].pc = "done"
    /\ req[r].out = <<"redirect_authorize">>
    /\ OnlyRequest(r)
    /\ session.oauthState = req[r].authState
    /\ Truthy(session.accessToken) /\ Truthy(session.refreshToken)
    /\ Truthy(session.user)

\* C36: a blitzwareLogout request without a session object is answered with
\* the redirect to redirectUrl and nothing else: no configuration error, no
\* logout page, no blitzware.logout() call.
C36_LogoutWithoutSession ==
  \A r \in Slots :
    (req[r].handler = "logout" /\ ~req[r].hasSession) =>
      /\ req[r].pc = "done"
      /\ req[r].out = <<"redirect_logout">>
      /\ req[r].calls = <<>>

C36_Witness ==
  \E r \in Slots :
    /\ req[r].handler = "logout" /\ ~req[r].hasSession
    /\ req[r].pc = "done"
    /\ Truthy(session.accessToken)
====
